---- MODULE Spec2Model ----
(***************************************************************************)
(* Model of the webhook / polling bridge of the Relevance AI WebSocket     *)
(* server: src/server.js (connection registry, webhook receiver, message   *)
(* handler) and src/relevance.js (dispatcher, fallback poller, webhook     *)
(* response parser).                                                       *)
(***************************************************************************)
EXTENDS Bags, FiniteSets, Integers, Sequences, TLC

(***************************************************************************)
(* Bounds of the model.                                                    *)
(***************************************************************************)
MaxClock == 1
MaxMessages == 1
MaxWebhooks == 1
MaxResults == 2

(***************************************************************************)
(* Program constants.                                                      *)
(***************************************************************************)
maxAttempts == 10

(***************************************************************************)
(* JavaScript values.  An object is an ordered list of <<key, value>>      *)
(* pairs, as JSON.parse builds it.                                         *)
(***************************************************************************)
Undef == [t |-> "undef"]
Null == [t |-> "null"]
Str(s) == [t |-> "str", v |-> s]
Num(n) == [t |-> "num", v |-> n]
Bool(b) == [t |-> "bool", v |-> b]
Obj(pairs) == [t |-> "obj", v |-> pairs]
Arr(items) == [t |-> "arr", v |-> items]

Truthy(x) ==
  CASE x.t = "str" -> x.v # ""
    [] x.t = "num" -> x.v # 0
    [] x.t = "bool" -> x.v
    [] x.t \in {"obj", "arr"} -> TRUE
    [] OTHER -> FALSE

\* a || b
Or(a, b) == IF Truthy(a) THEN a ELSE b

\* a && b
And(a, b) == IF Truthy(a) THEN b ELSE a

\* o.f on a value that is not null or undefined (those throw a TypeError)
Get(o, f) ==
  IF o.t = "obj" /\ \E i \in 1..Len(o.v) : o.v[i][1] = f
  THEN o.v[CHOOSE i \in 1..Len(o.v) :
              /\ o.v[i][1] = f
              /\ \A j \in (i + 1)..Len(o.v) : o.v[j][1] # f][2]
  ELSE Undef

\* o.f throws a TypeError
GetThrows(o) == o.t \in {"undef", "null"}

\* typeof x === 'string'
IsString(x) == x.t = "str"

RECURSIVE Join(_)
Join(s) == IF s = <<>> THEN "" ELSE Head(s) \o Join(Tail(s))

(***************************************************************************)
(* Socket ids are generated by socket.io from the base64url alphabet,      *)
(* which contains '-' and '_'.  An id is a sequence of characters.         *)
(***************************************************************************)
SocketIds == { <<"a", "-", "b">>, <<"a", "_", "b">> }

IsAlnum(c) == c \notin {"-", "_"}

\* `thread_${Date.now()}_${socket.id.replace(/[^a-zA-Z0-9]/g, '')}`
NewThreadId(clock, id) ==
  Str("thread_" \o ToString(clock) \o "_" \o Join(SelectSeq(id, IsAlnum)))

\* `thread_${Date.now()}_${socket.id}`
LateThreadId(clock, id) ==
  Str("thread_" \o ToString(clock) \o "_" \o Join(id))

\* process.env, fixed when the process starts: fully configured, or with
\* one of the variables the code checks missing
FullEnv ==
  [AGENT_ID |-> Str("agent-env"), RAI_AUTH_TOKEN |-> Str("proj:key"),
   SERVER_URL |-> Str("https://bridge")]

EnvChoices ==
  { FullEnv,
    [FullEnv EXCEPT !.SERVER_URL = Undef],
    [FullEnv EXCEPT !.RAI_AUTH_TOKEN = Undef, !.AGENT_ID = Undef] }

VARIABLES
  env,               \* process.env
  now,               \* Date.now()
  sockets,           \* socket id -> [connected, threadId]
  threadSocketsMap,  \* thread id -> set of socket ids
  msgs,              \* one closure per 'message' event that reached the dispatch
  reqs,              \* bag of webhook requests whose processing is scheduled
  nreq,              \* number of webhook requests received
  handled,           \* <<HTTP status, outcome>> of the requests processed
  emitted,           \* bag of socket.emit calls
  call               \* one call of a pure function: its argument and what it returned

vars == <<env, now, sockets, threadSocketsMap, msgs, reqs, nreq, handled, emitted, call>>

Emit(events) == emitted (+) SetToBag(events)

\* One socket.emit call.  via names the code path that makes the call and job
\* the closure (index in msgs) it answers, 0 for none.
Event(s, ev, via, job, data) ==
  [sock |-> s, ev |-> ev, via |-> via, job |-> job, data |-> data]


(***************************************************************************)
(* Connection registry (threadSocketsMap).                                 *)
(***************************************************************************)
\* register that takes a connection already in the set out of it
register_toggle(map, T, s) ==
  IF T \in DOMAIN map
  THEN [map EXCEPT ![T] = IF s \in @ THEN @ \ {s} ELSE @ \cup {s}]
  ELSE map @@ (T :> {s})

\* if (!map.has(T)) map.set(T, new Set()); map.get(T).add(socket)
register(map, T, s) ==
  IF T \in DOMAIN map
  THEN [map EXCEPT ![T] = @ \cup {s}]
  ELSE map @@ (T :> {s})

\* unregister that leaves the entry of an emptied set in the map
unregister_keepsEmpty(map, T, s) ==
  IF Truthy(T) /\ T \in DOMAIN map
  THEN [map EXCEPT ![T] = @ \ {s}]
  ELSE map

\* the 'disconnect' handler's clean-up of the map
unregister(map, T, s) ==
  IF Truthy(T) /\ T \in DOMAIN map
  THEN IF map[T] \ {s} = {}
       THEN [U \in DOMAIN map \ {T} |-> map[U]]
       ELSE [map EXCEPT ![T] = @ \ {s}]
  ELSE map

\* threadSocketsMap.get(T)
socketSetOf(map, T) == IF T \in DOMAIN map THEN map[T] ELSE {}

\* no pure function is being called
NoCall == [fn |-> "none", arg |-> Undef, done |-> FALSE, result |-> Undef]

Init ==
  /\ env \in EnvChoices
  /\ now = 0
  /\ sockets = << >>
  /\ threadSocketsMap = << >>
  /\ msgs = << >>
  /\ reqs = EmptyBag
  /\ nreq = 0
  /\ handled = {}
  /\ emitted = EmptyBag
  /\ call = NoCall

\* the milliseconds Date.now() may have advanced since it was last read
Elapsed == 0..(MaxClock - now)

\* io.on('connection'), dt ms after the clock was last read
Connect(id, dt) ==
  /\ id \notin DOMAIN sockets
  /\ now' = now + dt
  /\ LET threadId == NewThreadId(now', id)
     IN /\ sockets' = sockets @@ (id :> [connected |-> TRUE, threadId |-> threadId])
        /\ threadSocketsMap' = register(threadSocketsMap, threadId, id)
        /\ emitted' = emitted (+) SetToBag({
             [sock |-> id, ev |-> "connection_status", via |-> "connection", job |-> 0,
              data |-> [status |-> Str("connected"), threadId |-> threadId]] })
  /\ UNCHANGED <<call, env, msgs, reqs, nreq, handled>>

\* Disconnect that also stops the timers and pollers of the connection
Disconnect_cancels(id) ==
  /\ id \in DOMAIN sockets
  /\ sockets[id].connected
  /\ sockets' = [sockets EXCEPT ![id].connected = FALSE]
  /\ threadSocketsMap' = unregister(threadSocketsMap, sockets[id].threadId, id)
  /\ msgs' = [j \in 1..Len(msgs) |->
                IF msgs[j].sock = id /\ msgs[j].pc \in {"armed", "polling", "waiting"}
                THEN [msgs[j] EXCEPT !.pc = "done"] ELSE msgs[j]]
  /\ UNCHANGED <<call, env, now, reqs, nreq, handled, emitted>>

\* socket.io closes the socket (connected becomes false) and runs the
\* 'disconnect' handler in the same call
Disconnect(id) ==
  /\ id \in DOMAIN sockets
  /\ sockets[id].connected
  /\ sockets' = [sockets EXCEPT ![id].connected = FALSE]
  /\ threadSocketsMap' = unregister(threadSocketsMap, sockets[id].threadId, id)
  /\ UNCHANGED <<call, env, now, msgs, reqs, nreq, handled, emitted>>

(***************************************************************************)
(* socket.on('message') up to the outbound trigger request.                *)
(***************************************************************************)
MessageInputs ==
  { [message |-> m, messageId |-> i, agentId |-> a] :
      m \in {Undef, Str("Hello")},
      i \in {Undef, Str("m1")},
      a \in {Undef, Str("agent-1")} }

RandomSuffixes == {"k3x9"}

\* the synchronous checks of sendMessageToRelevanceAI before its fetch:
\* the message of the Error thrown, or Undef
dispatchConfigError(message) ==
  IF ~Truthy(message) THEN Str("Message is required")
  ELSE IF ~Truthy(env.RAI_AUTH_TOKEN)
  THEN Str("RAI_AUTH_TOKEN environment variable is required for Relevance AI API calls")
  ELSE IF ~Truthy(env.SERVER_URL)
  THEN Str("SERVER_URL environment variable is required for webhook callbacks")
  ELSE Undef

\* The variables one run of the message handler closes over, and where that
\* run stands: "rejected" (returned before the dispatch), "dispatch" (awaiting
\* the trigger request), "failed" (the dispatch threw), "armed" (the 10 s timer
\* is pending), "polling" (awaiting getJobStatus), "waiting" (the 6 s timer is
\* pending), "done" (nothing pending).  attempts is the counter of
\* pollJobStatus; starts counts the calls of pollJobStatus, inprogress the
\* status polls that reported neither completion nor failure, and last is how
\* the latest status poll settled.
Closure(s, messageId, threadId, pc) ==
  [sock |-> s, messageId |-> messageId, threadId |-> threadId, pc |-> pc,
   jobId |-> Undef, conversationId |-> Undef, attempts |-> 0, starts |-> 0,
   inprogress |-> 0, last |-> [kind |-> "none"]]

\* handlerError without the message id
handlerError_noMessageId(s, job, messageId, text) ==
  Event(s, "error", "handler", job,
        [messageId |-> Undef,
         message |-> Str("Error processing your message: " \o text)])

\* the catch block of the message handler
handlerError(s, job, messageId, text) ==
  Event(s, "error", "handler", job,
        [messageId |-> messageId,
         message |-> Str("Error processing your message: " \o text)])

\* lacksThreadId that holds on every message
lacksThreadId_always(threadId) == TRUE

\* if (!socket.threadId)
lacksThreadId(threadId) == ~Truthy(threadId)

\* agentIdOf with a built-in agent id as the last resort
agentIdOf_default(dataAgentId, envAgentId) ==
  Or(Or(dataAgentId, envAgentId), Str("agent-0"))

\* const agentId = data.agentId || process.env.AGENT_ID
agentIdOf(dataAgentId, envAgentId) == Or(dataAgentId, envAgentId)

OnMessage(s, data, rnd, dt) ==
  /\ now' = now + dt
  /\ s \in DOMAIN sockets
  /\ sockets[s].connected
  /\ Len(msgs) < MaxMessages
  /\ IF ~Truthy(data.message)
     THEN /\ emitted' = Emit({ Event(s, "error", "handler", 0,
                 [messageId |-> Undef, message |-> Str("No message content provided")]) })
          /\ msgs' = Append(msgs, Closure(s, data.messageId, sockets[s].threadId, "rejected"))
          /\ UNCHANGED <<sockets, threadSocketsMap>>
     ELSE LET late == lacksThreadId(sockets[s].threadId)
              threadId == IF late THEN LateThreadId(now', s) ELSE sockets[s].threadId
              messageId == IF Truthy(data.messageId) THEN data.messageId
                           ELSE Str("msg_" \o ToString(now') \o "_" \o rnd)
              agentId == agentIdOf(data.agentId, env.AGENT_ID)
              job == Len(msgs) + 1
              assigned == IF late
                          THEN { Event(s, "thread_assigned", "handler", 0,
                                       [threadId |-> threadId]) }
                          ELSE {}
              processing == Event(s, "processing", "handler", job,
                                  [messageId |-> messageId, message |-> Undef])
              thrown == dispatchConfigError(data.message)
          IN /\ sockets' = IF late THEN [sockets EXCEPT ![s].threadId = threadId]
                           ELSE sockets
             /\ threadSocketsMap' = IF late THEN register(threadSocketsMap, threadId, s)
                                    ELSE threadSocketsMap
             /\ IF ~Truthy(agentId)
                THEN /\ emitted' = Emit(assigned \cup { Event(s, "error", "handler", 0,
                            [messageId |-> Undef, message |-> Str("Agent ID is required")]) })
                     /\ msgs' = Append(msgs, Closure(s, messageId, threadId, "rejected"))
                ELSE IF Truthy(thrown)
                THEN /\ emitted' = Emit(assigned \cup
                            { processing, handlerError(s, job, messageId, thrown.v) })
                     /\ msgs' = Append(msgs, Closure(s, messageId, threadId, "failed"))
                ELSE /\ emitted' = Emit(assigned \cup { processing })
                     /\ msgs' = Append(msgs, Closure(s, messageId, threadId, "dispatch"))
  /\ UNCHANGED <<call, env, reqs, nreq, handled>>


(***************************************************************************)
(* String conversions.                                                     *)
(***************************************************************************)
RECURSIVE ToStr(_), JoinStr(_, _)
\* `${x}`
ToStr(x) ==
  CASE x.t = "str" -> x.v
    [] x.t = "num" -> ToString(x.v)
    [] x.t = "bool" -> IF x.v THEN "true" ELSE "false"
    [] x.t = "undef" -> "undefined"
    [] x.t = "null" -> "null"
    [] x.t = "obj" -> "[object Object]"
    [] x.t = "arr" -> JoinStr(x.v, 1)

JoinStr(items, i) ==
  IF i > Len(items) THEN ""
  ELSE (IF items[i].t \in {"undef", "null"} THEN "" ELSE ToStr(items[i]))
       \o (IF i < Len(items) THEN "," ELSE "")
       \o JoinStr(items, i + 1)

RECURSIVE JSONstringify(_), JSONitems(_, _), JSONpairs(_, _, _)
\* JSON.stringify(x) of a value that is not undefined
JSONstringify(x) ==
  CASE x.t = "str" -> "\"" \o x.v \o "\""
    [] x.t = "num" -> ToString(x.v)
    [] x.t = "bool" -> IF x.v THEN "true" ELSE "false"
    [] x.t \in {"null", "undef"} -> "null"
    [] x.t = "arr" -> "[" \o JSONitems(x.v, 1) \o "]"
    [] x.t = "obj" -> "{" \o JSONpairs(x.v, 1, TRUE) \o "}"

JSONitems(items, i) ==
  IF i > Len(items) THEN ""
  ELSE JSONstringify(items[i]) \o (IF i < Len(items) THEN "," ELSE "")
       \o JSONitems(items, i + 1)

JSONpairs(pairs, i, first) ==
  IF i > Len(pairs) THEN ""
  ELSE IF pairs[i][2].t = "undef" THEN JSONpairs(pairs, i + 1, first)
  ELSE (IF first THEN "" ELSE ",")
       \o "\"" \o pairs[i][1] \o "\":" \o JSONstringify(pairs[i][2])
       \o JSONpairs(pairs, i + 1, FALSE)

(***************************************************************************)
(* sendMessageToRelevanceAI after its fetch, and the rest of the message   *)
(* handler.                                                                *)
(***************************************************************************)
TriggerResponses ==
  { Obj(<< <<"conversation_id", Str("C1")>>,
           <<"job_info", Obj(<< <<"job_id", Str("J1")>> >>)>> >>),
    Obj(<< <<"conversation_id", Str("C1")>> >>),
    Obj(<< <<"job_info", Obj(<< <<"job_id", Str("J1")>> >>)>> >>),
    Null }

DispatchOutcomes ==
  { [kind |-> "network", text |-> "request to trigger failed"],
    [kind |-> "http", text |-> "Relevance AI API error (500): oops"] }
  \cup { [kind |-> "ok", data |-> d] : d \in TriggerResponses }

\* responseData.job_info?.job_id
jobIdOf(responseData) ==
  LET info == Get(responseData, "job_info")
  IN IF info.t \in {"undef", "null"} THEN Undef ELSE Get(info, "job_id")

\* the socketCallback closure the message handler passes to the dispatcher
socketCallback(m, j, eventType, eventData) ==
  CASE eventType = "processing" ->
         Event(m.sock, "processing", "poll", j,
               [messageId |-> Or(eventData.messageId, m.messageId),
                message |-> Or(eventData.message, Str("Backup polling started"))])
    [] eventType = "reply" ->
         Event(m.sock, "reply", "poll", j,
               [messageId |-> m.messageId,
                response |-> eventData.response,
                conversationId |-> Or(eventData.conversationId, m.conversationId)])
    [] eventType = "error" ->
         Event(m.sock, "error", "poll", j,
               [messageId |-> m.messageId,
                message |-> Or(eventData.message, Str("Error from polling")),
                error |-> eventData.error])

\* armsTimer with the timer left out
armsTimer_never(jobId) == FALSE

\* armsTimer without the job id condition
armsTimer_always(jobId) == TRUE

\* if (jobId && socketCallback) setTimeout(..., 10000)
armsTimer(jobId) == Truthy(jobId)

DispatchReturn(j, out) ==
  /\ j \in 1..Len(msgs)
  /\ msgs[j].pc = "dispatch"
  /\ LET m == msgs[j]
     IN IF out.kind # "ok"
        THEN /\ msgs' = [msgs EXCEPT ![j].pc = "failed"]
             /\ emitted' = Emit({ handlerError(m.sock, j, m.messageId, out.text) })
        ELSE IF GetThrows(out.data)
        THEN /\ msgs' = [msgs EXCEPT ![j].pc = "failed"]
             /\ emitted' = Emit({ handlerError(m.sock, j, m.messageId,
                    "Cannot read properties of null (reading 'conversation_id')") })
        ELSE LET jobId == jobIdOf(out.data)
                 conversationId == Get(out.data, "conversation_id")
             IN /\ msgs' = [msgs EXCEPT
                     ![j].pc = IF armsTimer(jobId) THEN "armed" ELSE "done",
                     ![j].jobId = jobId,
                     ![j].conversationId = conversationId]
                /\ emitted' = Emit({
                     IF Truthy(conversationId)
                     THEN Event(m.sock, "message_sent", "handler", j,
                            [messageId |-> m.messageId,
                             conversationId |-> conversationId,
                             threadId |-> m.threadId])
                     ELSE handlerError(m.sock, j, m.messageId,
                            "No valid response from Relevance AI") })
  /\ UNCHANGED <<call, env, now, sockets, threadSocketsMap, reqs, nreq, handled>>


(***************************************************************************)
(* The fallback poller: the arm timer and pollJobStatus.                   *)
(***************************************************************************)
\* what getJobStatus returns or throws
PollBodies ==
  { Obj(<< <<"state", Str("running")>> >>),
    Obj(<< <<"state", Str("completed")>>,
           <<"output", Obj(<< <<"text", Str("Hi there")>> >>)>>,
           <<"conversation_id", Str("C2")>> >>),
    Obj(<< <<"status", Str("completed")>>, <<"response", Str("Hi there")>> >>),
    Obj(<< <<"state", Str("failed")>>, <<"error", Str("boom")>> >>) }

PollOutcomes ==
  { [kind |-> "throw", text |-> "Failed to get job status: 500 Internal Server Error"] }
  \cup { [kind |-> "data", data |-> d] : d \in PollBodies }

\* jobIs that reads the status field only
jobIs_statusOnly(jobData, v) == Get(jobData, "status") = Str(v)

\* jobIs that reads the state field only
jobIs_stateOnly(jobData, v) == Get(jobData, "state") = Str(v)

\* jobData.state === v || jobData.status === v
jobIs(jobData, v) == Get(jobData, "state") = Str(v) \/ Get(jobData, "status") = Str(v)

\* the text the poller extracts from a completed job
responseTextOf(jobData) ==
  LET output == Get(jobData, "output")
      text == IF output.t \in {"undef", "null"} THEN Undef ELSE Get(output, "text")
      result == Get(jobData, "result")
  IN IF Truthy(text) THEN text
     ELSE IF Truthy(Get(jobData, "response")) THEN Get(jobData, "response")
     ELSE IF Truthy(result)
     THEN (IF IsString(result) THEN result ELSE Str(JSONstringify(result)))
     ELSE IF Truthy(Get(jobData, "content")) THEN Get(jobData, "content")
     ELSE Str("Job completed, but no response text found")

\* pollsAgain with the comparison off by one
pollsAgain_offByOne(attempts) == attempts <= maxAttempts

\* poll continues: if (attempts < maxAttempts) setTimeout(poll, interval)
pollsAgain(attempts) == attempts < maxAttempts

\* pollStep that polls again after a status request that threw
pollStep_retryOnThrow(attempts, out) ==
  IF out.kind = "throw" /\ pollsAgain(attempts)
  THEN [next |-> "again", text |-> Undef, error |-> Undef, conversation_id |-> Undef]
  ELSE IF out.kind = "throw"
  THEN [next |-> "stop", text |-> Str("Polling error: " \o out.text),
        error |-> Bool(TRUE), conversation_id |-> Undef]
  ELSE IF jobIs(out.data, "completed")
  THEN [next |-> "stop", text |-> responseTextOf(out.data), error |-> Undef,
        conversation_id |-> Get(out.data, "conversation_id")]
  ELSE IF jobIs(out.data, "failed")
  THEN [next |-> "stop",
        text |-> Str("Error: " \o ToStr(Or(Get(out.data, "error"), Str("Job failed")))),
        error |-> Bool(TRUE), conversation_id |-> Undef]
  ELSE IF pollsAgain(attempts)
  THEN [next |-> "again", text |-> Undef, error |-> Undef, conversation_id |-> Undef]
  ELSE [next |-> "stop", text |-> Str("Timeout: Job processing took too long"),
        error |-> Bool(TRUE), conversation_id |-> Undef]

\* One run of poll() after getJobStatus settled: "again" when the next poll is
\* scheduled, otherwise the result handed to onComplete.
pollStep(attempts, out) ==
  IF out.kind = "throw"
  THEN [next |-> "stop", text |-> Str("Polling error: " \o out.text),
        error |-> Bool(TRUE), conversation_id |-> Undef]
  ELSE IF GetThrows(out.data)
  THEN [next |-> "stop",
        text |-> Str("Polling error: Cannot read properties of null (reading 'state')"),
        error |-> Bool(TRUE), conversation_id |-> Undef]
  ELSE IF jobIs(out.data, "completed")
  THEN [next |-> "stop", text |-> responseTextOf(out.data), error |-> Undef,
        conversation_id |-> Get(out.data, "conversation_id")]
  ELSE IF jobIs(out.data, "failed")
  THEN [next |-> "stop",
        text |-> Str("Error: " \o ToStr(Or(Get(out.data, "error"), Str("Job failed")))),
        error |-> Bool(TRUE), conversation_id |-> Undef]
  ELSE IF pollsAgain(attempts)
  THEN [next |-> "again", text |-> Undef, error |-> Undef, conversation_id |-> Undef]
  ELSE [next |-> "stop", text |-> Str("Timeout: Job processing took too long"),
        error |-> Bool(TRUE), conversation_id |-> Undef]

\* onComplete that reports every result as an error
onComplete_errorOnly(m, j, result) ==
  socketCallback(m, j, "error", [message |-> result.text, error |-> result.error])

\* onComplete that reports every result as a reply
onComplete_replyOnly(m, j, result) ==
  socketCallback(m, j, "reply",
    [response |-> result.text,
     conversationId |-> Or(result.conversation_id, m.conversationId)])

\* the onComplete callback the dispatcher hands to pollJobStatus
onComplete(m, j, result) ==
  IF Truthy(result.error)
  THEN socketCallback(m, j, "error", [message |-> result.text, error |-> result.error])
  ELSE socketCallback(m, j, "reply",
         [response |-> result.text,
          conversationId |-> Or(result.conversation_id, m.conversationId)])

\* armTimerFired with a repeating timer (setInterval) in place of setTimeout
armTimerFired_repeating(m) ==
  [m EXCEPT !.starts = @ + 1, !.attempts = 1]

\* the closure after the arm timer's callback ran: pollJobStatus was called
\* and its first poll() awaits getJobStatus
armTimerFired(m) ==
  [m EXCEPT !.pc = "polling", !.starts = @ + 1, !.attempts = 1]

\* the 10 s timer set by the dispatcher expires
ArmTimerFire(j) ==
  /\ j \in 1..Len(msgs)
  /\ msgs[j].pc = "armed"
  /\ LET m == msgs[j]
     IN /\ emitted' = Emit({ socketCallback(m, j, "processing",
              [messageId |-> Str("polling-" \o ToStr(m.jobId)),
               message |-> Str("Webhook not received, starting polling fallback...")]) })
        /\ msgs' = [msgs EXCEPT ![j] = armTimerFired(m)]
  /\ UNCHANGED <<call, env, now, sockets, threadSocketsMap, reqs, nreq, handled>>

\* the job status reports neither completion nor failure
InProgress(out) ==
  /\ out.kind = "data"
  /\ ~GetThrows(out.data)
  /\ ~jobIs(out.data, "completed")
  /\ ~jobIs(out.data, "failed")

\* PollReturn whose catch block logs the error and does not call onComplete
PollReturn_silentCatch(j, out) ==
  /\ j \in 1..Len(msgs)
  /\ msgs[j].pc = "polling"
  /\ LET m == msgs[j]
         step == pollStep(m.attempts, out)
         seen == IF InProgress(out) THEN m.inprogress + 1 ELSE m.inprogress
     IN IF step.next = "again"
        THEN /\ msgs' = [msgs EXCEPT ![j].pc = "waiting", ![j].inprogress = seen,
                                      ![j].last = out]
             /\ emitted' = emitted
        ELSE /\ msgs' = [msgs EXCEPT ![j].pc = "done", ![j].inprogress = seen,
                                      ![j].last = out]
             /\ emitted' = IF out.kind = "throw" THEN emitted
                           ELSE Emit({ onComplete(m, j, step) })
  /\ UNCHANGED <<call, env, now, sockets, threadSocketsMap, reqs, nreq, handled>>

\* getJobStatus settles
PollReturn(j, out) ==
  /\ j \in 1..Len(msgs)
  /\ msgs[j].pc = "polling"
  /\ LET m == msgs[j]
         step == pollStep(m.attempts, out)
         seen == IF InProgress(out) THEN m.inprogress + 1 ELSE m.inprogress
     IN IF step.next = "again"
        THEN /\ msgs' = [msgs EXCEPT ![j].pc = "waiting", ![j].inprogress = seen,
                                      ![j].last = out]
             /\ emitted' = emitted
        ELSE /\ msgs' = [msgs EXCEPT ![j].pc = "done", ![j].inprogress = seen,
                                      ![j].last = out]
             /\ emitted' = Emit({ onComplete(m, j, step) })
  /\ UNCHANGED <<call, env, now, sockets, threadSocketsMap, reqs, nreq, handled>>

\* the 6 s timer set by poll() expires: attempts++ and the next getJobStatus
PollTimerFire(j) ==
  /\ j \in 1..Len(msgs)
  /\ msgs[j].pc = "waiting"
  /\ msgs' = [msgs EXCEPT ![j].pc = "polling", ![j].attempts = @ + 1]
  /\ UNCHANGED <<call, env, now, sockets, threadSocketsMap, reqs, nreq, handled, emitted>>


(***************************************************************************)
(* parseWebhookResponse (relevance.js).                                    *)
(***************************************************************************)
\* x.length > 0
hasLength(x) ==
  CASE x.t = "arr" -> Len(x.v) > 0
    [] x.t = "str" -> Len(x.v) > 0
    [] x.t = "obj" -> Get(x, "length").t = "num" /\ Get(x, "length").v > 0
    [] OTHER -> FALSE

\* isAgentMessage that accepts a message of any author
isAgentMessage_any(msg) == Truthy(Get(msg, "content"))

\* msg.content && msg.content.type === 'agent-message'
isAgentMessage(msg) ==
  /\ Truthy(Get(msg, "content"))
  /\ Get(Get(msg, "content"), "type") = Str("agent-message")

\* webhookData.results.filter(...) throws a TypeError
filterThrows(results) ==
  \/ results.t # "arr"
  \/ \E i \in 1..Len(results.v) : GetThrows(results.v[i])

\* s.substring(0, 100)
substring100(s) == IF Len(s) <= 100 THEN s ELSE SubSeq(s, 1, 100)

Parsed(text, conversation_id, thread_id) ==
  [threw |-> FALSE, text |-> text, conversation_id |-> conversation_id,
   thread_id |-> thread_id, status |-> Undef, raw |-> Undef]

Thrown == [threw |-> TRUE, text |-> Undef, conversation_id |-> Undef,
           thread_id |-> Undef, status |-> Undef, raw |-> Undef]

\* the text of the fallback envelope
extractedTextOf(webhookData) ==
  IF IsString(webhookData) THEN Str(substring100(webhookData.v))
  ELSE IF Truthy(Get(webhookData, "message"))
  THEN (IF IsString(Get(webhookData, "message")) THEN Get(webhookData, "message")
        ELSE Str("Found message property but not in expected format"))
  ELSE IF Truthy(Get(webhookData, "error"))
  THEN (IF IsString(Get(webhookData, "error"))
        THEN Str("Error: " \o Get(webhookData, "error").v)
        ELSE Str("Error occurred but details not available"))
  ELSE IF /\ Truthy(Get(webhookData, "job_info"))
          /\ Get(Get(webhookData, "job_info"), "status") = Str("failed")
  THEN Str("Job failed: " \o
           ToStr(Or(Get(Get(webhookData, "job_info"), "error"), Str("Unknown error"))))
  ELSE Str("")

parseWebhookResponse(webhookData) ==
  LET conv == Get(webhookData, "conversation_id")
      thread == Get(webhookData, "thread_id")
      results == Get(webhookData, "results")
      output == Get(webhookData, "output")
      task == Get(webhookData, "task")
      content == Get(webhookData, "content")
      data == Get(webhookData, "data")
      agent == IF results.t = "arr"
               THEN SelectSeq(results.v, isAgentMessage) ELSE << >>
  IN IF ~Truthy(webhookData) THEN Thrown
     ELSE IF Truthy(Get(webhookData, "response"))
     THEN Parsed(Get(webhookData, "response"), conv, thread)
     ELSE IF Truthy(results) /\ hasLength(results) /\ filterThrows(results)
     THEN Thrown
     ELSE IF Truthy(results) /\ hasLength(results) /\ Len(agent) > 0
     THEN Parsed(Get(Get(agent[Len(agent)], "content"), "text"), conv, thread)
     ELSE IF Truthy(output)
     THEN Parsed(Or(Get(output, "text"), output), conv, thread)
     ELSE IF Truthy(task) /\ Truthy(Get(task, "response"))
     THEN Parsed(Get(task, "response"), conv, thread)
     ELSE IF Truthy(content)
     THEN Parsed(IF IsString(content) THEN content ELSE Str(JSONstringify(content)),
                 Or(conv, thread), thread)
     ELSE IF Truthy(data) /\ Truthy(Get(data, "content"))
     THEN Parsed(IF IsString(Get(data, "content")) THEN Get(data, "content")
                 ELSE Str(JSONstringify(Get(data, "content"))),
                 Or(Get(data, "conversation_id"), thread), thread)
     ELSE [threw |-> FALSE,
           text |-> Or(extractedTextOf(webhookData),
                       Str("No response text could be extracted from the webhook data")),
           conversation_id |-> conv, thread_id |-> thread,
           status |-> Str("unparsed"), raw |-> webhookData]

(***************************************************************************)
(* parseWebhookResponse called on its own, on the payloads below.          *)
(***************************************************************************)
\* an object with the given fields, those that are undefined left out
MakeObj(pairs) == Obj(SelectSeq(pairs, LAMBDA kv : kv[2] # Undef))

\* one entry of a results list written by a user, and one written by the agent
userMessage ==
  Obj(<< <<"content", Obj(<< <<"type", Str("user-message")>>, <<"text", Str("Hello")>> >>)>> >>)

agentMessage(text) ==
  Obj(<< <<"content", Obj(<< <<"type", Str("agent-message")>>, <<"text", Str(text)>> >>)>> >>)

ResultEntries == { userMessage, agentMessage("A1"), agentMessage("A2"), Null }

RECURSIVE ListsUpTo(_, _)
ListsUpTo(S, n) ==
  IF n = 0 THEN { << >> }
  ELSE LET shorter == ListsUpTo(S, n - 1)
       IN shorter \cup { Append(l, x) : l \in { k \in shorter : Len(k) = n - 1 }, x \in S }

ResultsChoices ==
  { Undef, Str("oops") } \cup { Arr(l) : l \in ListsUpTo(ResultEntries, MaxResults) }

\* payloads built from the fields of the six formats
ShapePayloads ==
  { MakeObj(<< <<"response", response>>, <<"results", results>>, <<"output", output>>,
               <<"task", task>>, <<"content", content>>, <<"data", data>>,
               <<"conversation_id", Str("C1")>> >>) :
      response \in { Undef, Str(""), Str("R1") },
      results \in ResultsChoices,
      output \in { Undef, Str("O1"), Obj(<< <<"text", Str("O2")>> >>) },
      task \in { Undef, Obj(<< <<"response", Str("T1")>> >>), Obj(<< <<"thread_id", Str("T1")>> >>) },
      content \in { Undef, Str("K1"), Obj(<< <<"a", Num(1)>> >>) },
      data \in { Undef, Obj(<< <<"content", Str("D1")>> >>),
                 Obj(<< <<"content", Arr(<< Bool(TRUE), Null >>)>> >>) } }

\* payloads built from the fields the fallback reads
OtherPayloads ==
  { MakeObj(<< <<"message", message>>, <<"error", error>>, <<"job_info", job_info>>,
               <<"results", results>>, <<"thread_id", thread_id>> >>) :
      message \in { Undef, Str("queued"), Num(7) },
      error \in { Undef, Str("boom"), Obj(<< >>) },
      job_info \in { Undef, Obj(<< <<"status", Str("failed")>> >>),
                     Obj(<< <<"status", Str("failed")>>, <<"error", Str("boom")>> >>) },
      results \in { Undef, Str("oops"), Arr(<< >>), Arr(<< userMessage >>), Arr(<< Null >>) },
      thread_id \in { Undef, Str("T1") } }

Payloads ==
  { Undef, Null, Str(""), Str("plain text") } \cup ShapePayloads \cup OtherPayloads

ParseInit ==
  /\ env = FullEnv
  /\ now = 0
  /\ sockets = << >>
  /\ threadSocketsMap = << >>
  /\ msgs = << >>
  /\ reqs = EmptyBag
  /\ nreq = 0
  /\ handled = {}
  /\ emitted = EmptyBag
  /\ call \in { [fn |-> "parseWebhookResponse", arg |-> p, done |-> FALSE, result |-> Undef] :
                  p \in Payloads }

\* parseWebhookResponse(call.arg) returns or throws
Normalize ==
  /\ call.fn = "parseWebhookResponse"
  /\ ~call.done
  /\ call' = [call EXCEPT !.done = TRUE, !.result = parseWebhookResponse(call.arg)]
  /\ UNCHANGED <<env, now, sockets, threadSocketsMap, msgs, reqs, nreq, handled, emitted>>

ParseNext == Normalize

ParseSpec == ParseInit /\ [][ParseNext]_vars

(***************************************************************************)
(* The registration of a connection, made twice.                           *)
(***************************************************************************)
\* the connections and thread ids of the registries below
RegSockets == SocketIds \cup { <<"c">> }

RegThreads == { NewThreadId(c, id) : c \in 0..MaxClock, id \in SocketIds }

\* the registry in which connection s is under thread id at[s] (Undef: none)
RegistryOf(at) ==
  [T \in { at[s] : s \in { x \in DOMAIN at : at[x] # Undef } } |->
     { s \in DOMAIN at : at[s] = T }]

\* a registry and its connections, and a new connection call.arg.s with
\* thread id call.arg.T that is about to be registered
RegisterInit ==
  /\ env = FullEnv
  /\ now = 0
  /\ msgs = << >>
  /\ reqs = EmptyBag
  /\ nreq = 0
  /\ handled = {}
  /\ emitted = EmptyBag
  /\ \E s \in RegSockets, T \in RegThreads :
       \E at \in [RegSockets \ {s} -> RegThreads \cup {Undef}] :
         /\ threadSocketsMap = RegistryOf(at)
         /\ sockets = [x \in { y \in RegSockets : y = s \/ at[y] # Undef } |->
                         [connected |-> TRUE, threadId |-> IF x = s THEN T ELSE at[x]]]
         /\ call = [fn |-> "register", arg |-> [T |-> T, s |-> s], done |-> FALSE,
                    result |-> << >>]

\* the three statements that register call.arg.s under call.arg.T run, for
\* the first and then for the second time; result keeps the registry after each
Register ==
  /\ call.fn = "register"
  /\ ~call.done
  /\ threadSocketsMap' = register(threadSocketsMap, call.arg.T, call.arg.s)
  /\ call' = [call EXCEPT !.result = Append(@, threadSocketsMap'),
                          !.done = Len(call.result) = 1]
  /\ UNCHANGED <<env, now, sockets, msgs, reqs, nreq, handled, emitted>>

RegisterNext == Register

RegisterSpec == RegisterInit /\ [][RegisterNext]_vars

(***************************************************************************)
(* handleWebhook (server.js).                                              *)
(***************************************************************************)
\* threadIdOf that reads conversation_id before the thread-id fields
threadIdOf_conversationFirst(body) ==
  Or(Get(body, "conversation_id"),
     Or(Get(body, "thread_id"),
        Or(Get(body, "threadId"),
           Or(And(Get(body, "task"), Get(Get(body, "task"), "thread_id")),
              Get(body, "id")))))

\* thread_id || threadId || conversation_id || (task && task.thread_id) || id
threadIdOf(body) ==
  Or(Get(body, "thread_id"),
     Or(Get(body, "threadId"),
        Or(Get(body, "conversation_id"),
           Or(And(Get(body, "task"), Get(Get(body, "task"), "thread_id")),
              Get(body, "id")))))


\* webhookRecipients that stops after the first socket of the set
webhookRecipients_first(threadId) ==
  LET live == { s \in socketSetOf(threadSocketsMap, threadId) : sockets[s].connected }
  IN IF live = {} THEN {} ELSE { CHOOSE s \in live : TRUE }

\* webhookRecipients that serves every connected socket, whatever its thread
webhookRecipients_allLive(threadId) ==
  { s \in DOMAIN sockets : sockets[s].connected }

\* the sockets the forEach of handleWebhook emits to
webhookRecipients(threadId) ==
  { s \in socketSetOf(threadSocketsMap, threadId) : sockets[s].connected }

\* payloads the external processor posts for a dispatch on thread T
WebhookBodiesFor(T) ==
  { Obj(<< <<"thread_id", T>>, <<"response", Str("Hi there")>>,
           <<"conversation_id", Str("C1")>> >>),
    Obj(<< <<"threadId", T>>, <<"message", Str("queued")>> >>),
    Obj(<< <<"thread_id", T>>, <<"results", Str("oops")>> >>) }

\* payloads that answer no dispatch
StrayBodies ==
  { Obj(<< <<"response", Str("Hi there")>> >>),
    Obj(<< <<"thread_id", Str("")>>, <<"id", Num(0)>>, <<"output", Str("Hi there")>> >>),
    Obj(<< <<"conversation_id", Str("C1")>>, <<"response", Str("Hi there")>> >>) }

\* the trigger request of closure j reached the external processor
Dispatched(j) == msgs[j].pc \in {"dispatch", "armed", "polling", "waiting", "done"}

\* webhookOutcome without the guard on a missing or empty socket set: forEach
\* of undefined throws
webhookOutcome_noGuard(body) ==
  IF GetThrows(body) THEN "threw"
  ELSE IF ~Truthy(threadIdOf(body)) THEN "no_thread"
  ELSE IF parseWebhookResponse(body).threw THEN "threw"
  ELSE IF threadIdOf(body) \notin DOMAIN threadSocketsMap THEN "threw"
  ELSE "delivered"

\* what the setTimeout(..., 0) callback of handleWebhook does with a body
webhookOutcome(body) ==
  IF GetThrows(body) THEN "threw"
  ELSE IF ~Truthy(threadIdOf(body)) THEN "no_thread"
  ELSE IF parseWebhookResponse(body).threw THEN "threw"
  ELSE IF socketSetOf(threadSocketsMap, threadIdOf(body)) = {} THEN "no_socket"
  ELSE "delivered"

\* received with the payload processed inside the outer try, before the
\* response is sent: an exception then reaches the outer catch (500)
received_processedFirst(body, job) ==
  [body |-> body, job |-> job,
   status |-> IF webhookOutcome(body) = "threw" THEN 500 ELSE 200]

\* The request after the synchronous part of handleWebhook: the 200 response
\* is sent and the processing is scheduled with setTimeout(..., 0).  job names
\* the dispatch the external processor answers (0: none).
received(body, job) ==
  [body |-> body, job |-> job, status |-> 200]

\* POST /api/relevance-webhook or /webhook: the synchronous part
WebhookArrive(body, job) ==
  /\ nreq < MaxWebhooks
  /\ nreq' = nreq + 1
  /\ reqs' = reqs (+) SetToBag({ received(body, job) })
  /\ UNCHANGED <<call, env, now, sockets, threadSocketsMap, msgs, handled, emitted>>

\* deliverTo with a broadcast to every live socket when no thread id resolves
deliverTo_broadcast(body) ==
  IF webhookOutcome(body) = "delivered"
  THEN webhookRecipients(threadIdOf(body))
  ELSE IF webhookOutcome(body) = "no_thread"
  THEN { s \in DOMAIN sockets : sockets[s].connected }
  ELSE {}

\* deliverTo with the payload parsed inside the forEach: the first socket of
\* the set is served before the parser throws
deliverTo_beforeParse(body) ==
  IF webhookOutcome(body) = "delivered"
  THEN webhookRecipients(threadIdOf(body))
  ELSE IF webhookOutcome(body) = "threw" /\ ~GetThrows(body) /\ Truthy(threadIdOf(body))
  THEN webhookRecipients_first(threadIdOf(body))
  ELSE {}

\* the sockets the callback emits a reply to
deliverTo(body) ==
  IF webhookOutcome(body) = "delivered"
  THEN webhookRecipients(threadIdOf(body))
  ELSE {}

\* the setTimeout(..., 0) callback of handleWebhook
WebhookProcess(r) ==
  /\ BagIn(r, reqs)
  /\ LET parsedResponse == parseWebhookResponse(r.body)
     IN /\ reqs' = reqs (-) SetToBag({r})
        /\ handled' = handled \cup { <<r.status, webhookOutcome(r.body)>> }
        /\ emitted' = Emit({ Event(s, "reply", "webhook", r.job,
                                   [response |-> parsedResponse.text,
                                    conversationId |-> parsedResponse.conversation_id]) :
                             s \in deliverTo(r.body) })
  /\ UNCHANGED <<call, env, now, sockets, threadSocketsMap, msgs, nreq>>

(***************************************************************************)
(* The thread-id resolution of handleWebhook, on one request.              *)
(***************************************************************************)
\* five connections, and the thread id each got when it connected at clock 0
ThreadSockets == { <<"s", d>> : d \in {"1", "2", "3", "4", "5"} }

ThreadOf(d) == NewThreadId(0, <<"s", d>>)

\* request bodies built from the five fields that may name the thread, each
\* field naming the thread of another connection
ThreadBodies ==
  { MakeObj(<< <<"id", id>>, <<"task", task>>, <<"conversation_id", conversation_id>>,
               <<"threadId", threadId>>, <<"thread_id", thread_id>>,
               <<"response", Str("Hi there")>> >>) :
      thread_id \in { Undef, Str(""), ThreadOf("1") },
      threadId \in { Undef, Null, ThreadOf("2") },
      conversation_id \in { Undef, Str(""), ThreadOf("3") },
      task \in { Undef, Null, Obj(<< <<"response", Str("Hi there")>> >>),
                 Obj(<< <<"thread_id", ThreadOf("4")>> >>) },
      id \in { Undef, Num(0), ThreadOf("5") } }

\* the five connections are live and registered; one body is about to arrive
ThreadInit ==
  /\ env = FullEnv
  /\ now = 0
  /\ sockets = [s \in ThreadSockets |-> [connected |-> TRUE, threadId |-> ThreadOf(s[2])]]
  /\ threadSocketsMap = [T \in { ThreadOf(s[2]) : s \in ThreadSockets } |->
                           { s \in ThreadSockets : ThreadOf(s[2]) = T }]
  /\ msgs = << >>
  /\ reqs = EmptyBag
  /\ nreq = 0
  /\ handled = {}
  /\ emitted = EmptyBag
  /\ call \in { [fn |-> "threadIdOf", arg |-> b, done |-> FALSE, result |-> Undef] :
                  b \in ThreadBodies }

\* the thread id that the callback of handleWebhook resolves for call.arg
Resolve ==
  /\ call.fn = "threadIdOf"
  /\ ~call.done
  /\ call' = [call EXCEPT !.done = TRUE, !.result = threadIdOf(call.arg)]
  /\ UNCHANGED <<env, now, sockets, threadSocketsMap, msgs, reqs, nreq, handled, emitted>>

\* the body is posted to the webhook route
ThreadArrive ==
  /\ call.fn = "threadIdOf"
  /\ WebhookArrive(call.arg, 0)

ThreadNext ==
  \/ Resolve
  \/ ThreadArrive
  \/ \E r \in BagToSet(reqs) : WebhookProcess(r)

ThreadSpec == ThreadInit /\ [][ThreadNext]_vars

(***************************************************************************)
(* The specification.                                                      *)
(***************************************************************************)
Next ==
  \/ \E id \in SocketIds, dt \in Elapsed : Connect(id, dt)
  \/ \E id \in SocketIds : Disconnect(id)
  \/ \E id \in SocketIds, data \in MessageInputs, rnd \in RandomSuffixes, dt \in Elapsed :
       OnMessage(id, data, rnd, dt)
  \/ \E j \in 1..MaxMessages, out \in DispatchOutcomes : DispatchReturn(j, out)
  \/ \E j \in 1..MaxMessages : ArmTimerFire(j)
  \/ \E j \in 1..MaxMessages, out \in PollOutcomes : PollReturn(j, out)
  \/ \E j \in 1..MaxMessages : PollTimerFire(j)
  \/ \E j \in 1..Len(msgs) :
       /\ Dispatched(j)
       /\ \E body \in WebhookBodiesFor(msgs[j].threadId) : WebhookArrive(body, j)
  \/ \E body \in StrayBodies : WebhookArrive(body, 0)
  \/ \E r \in BagToSet(reqs) : WebhookProcess(r)

Spec == Init /\ [][Next]_vars


\* Timers fire, and every outbound request settles.
FairSpec ==
  /\ Spec
  /\ \A j \in 1..MaxMessages :
       /\ WF_vars(\E out \in DispatchOutcomes : DispatchReturn(j, out))
       /\ WF_vars(ArmTimerFire(j))
       /\ WF_vars(\E out \in PollOutcomes : PollReturn(j, out))
       /\ WF_vars(PollTimerFire(j))
  /\ WF_vars(\E r \in BagToSet(reqs) : WebhookProcess(r))

(***************************************************************************)
(* Properties.                                                             *)
(***************************************************************************)
\* number of emit calls in bag b that satisfy P
CountWhere(b, P(_)) ==
  BagCardinality([e \in { x \in BagToSet(b) : P(x) } |-> b[e]])

\* the emit calls of the step
NewEvents == emitted' (-) emitted

\* e is a reply or an error that the webhook path or the poller emits for job j
Answers(e, j) ==
  /\ e.job = j
  /\ e.ev \in {"reply", "error"}
  /\ e.via \in {"webhook", "poll"}

\* terminal envelopes emitted for job j to the connection that sent it
TerminalCount(j) ==
  CountWhere(emitted, LAMBDA e : Answers(e, j) /\ e.sock = msgs[j].sock)

\* terminal envelopes the poller emitted for job j
PollTerminalCount(j) ==
  CountWhere(emitted, LAMBDA e : Answers(e, j) /\ e.via = "poll")

\* the webhook path has delivered a reply for job j
WebhookReplied(j) ==
  \E e \in BagToSet(emitted) : Answers(e, j) /\ e.via = "webhook"

\* job j has been answered by either path
Resolved(j) == \E e \in BagToSet(emitted) : Answers(e, j)

\* 'polling fallback' processing events emitted for job j
FallbackNotices(j) ==
  CountWhere(emitted, LAMBDA e : e.job = j /\ e.ev = "processing" /\ e.via = "poll")

\* the trigger request of closure j succeeded
DispatchedOK(j) ==
  /\ j \in 1..Len(msgs)
  /\ msgs[j].pc \in {"armed", "polling", "waiting", "done"}

\* the trigger request of closure j succeeded and returned a job id
DispatchedWithId(j) == DispatchedOK(j) /\ Truthy(msgs[j].jobId)

\* the connection that sent message j has disconnected
Gone(j) ==
  /\ j \in 1..Len(msgs)
  /\ ~sockets[msgs[j].sock].connected

\* this step is the deferred processing of webhook request r
Processed(r) ==
  /\ BagIn(r, reqs)
  /\ reqs' = reqs (-) SetToBag({r})
  /\ nreq' = nreq

\* C1: for every dispatched job that has a job id, at most one terminal
\* envelope (a reply or an error from the webhook path or the poller) is
\* emitted to the originating connection.
C1_AtMostOneTerminal ==
  \A j \in 1..Len(msgs) :
    Truthy(msgs[j].jobId) => TerminalCount(j) <= 1

C3_NoPollAfterWebhook ==
  [][\A j \in 1..Len(msgs) :
       (WebhookReplied(j) /\ msgs[j].pc \in {"dispatch", "armed"})
         => /\ msgs'[j].starts = 0
            /\ msgs'[j].attempts = 0
            /\ \A e \in BagToSet(NewEvents) : ~(e.job = j /\ e.via = "poll")]_vars

\* C4: one arm timer is armed per dispatch that returns a job id, it fires
\* once and it starts exactly one poll loop: pollJobStatus is called at most
\* once per job, and exactly once (with one 'polling fallback' event) as soon
\* as the timer has expired.
C4_PollerStartedOnce ==
  \A j \in 1..Len(msgs) :
    LET m == msgs[j]
    IN /\ m.starts <= 1
       /\ FallbackNotices(j) = m.starts
       /\ DispatchedOK(j) /\ Truthy(m.jobId) /\ m.pc # "armed" => m.starts = 1
       /\ m.pc = "armed" => Truthy(m.jobId) /\ m.starts = 0
       /\ ~(DispatchedOK(j) /\ Truthy(m.jobId)) => m.starts = 0

\* no webhook was received, the arm timer has expired and the poller runs
C4_Witness ==
  \E j \in 1..Len(msgs) :
    /\ nreq = 0
    /\ msgs[j].pc = "polling"
    /\ msgs[j].starts = 1

\* C5: a webhook that is processed for a job already resolved (by an earlier
\* webhook or by the poller) emits no event.
C5_LateWebhookDropped ==
  [][\A r \in BagToSet(reqs) :
       (Processed(r) /\ r.job # 0 /\ Resolved(r.job)) => emitted' = emitted]_vars

\* C6: a poller whose polls all report an in-progress state stops after the
\* maxAttempts-th result with exactly one error event carrying the timeout
\* text; it never polls again and emits nothing else.
C6_OneTimeout ==
  \A j \in 1..Len(msgs) :
    LET m == msgs[j]
    IN /\ m.attempts <= maxAttempts
       /\ m.inprogress <= maxAttempts
       /\ m.inprogress = maxAttempts =>
            /\ m.pc = "done"
            /\ m.attempts = maxAttempts
            /\ PollTerminalCount(j) = 1
            /\ \A e \in BagToSet(emitted) :
                 Answers(e, j) /\ e.via = "poll" =>
                   /\ e.ev = "error"
                   /\ e.data.message = Str("Timeout: Job processing took too long")

\* ten polls reported an in-progress state and the poller has stopped
C6_Witness ==
  \E j \in 1..Len(msgs) :
    msgs[j].inprogress = maxAttempts /\ msgs[j].pc = "done"

\* C7: every webhook request is answered with status 200 before its payload
\* is processed, and the status is 200 whatever the processing does.
C7_AckFirst ==
  /\ \A r \in BagToSet(reqs) : r.status = 200
  /\ \A h \in handled : h[1] = 200

\* a request whose processing threw had been answered with 200
C7_Witness == <<200, "threw">> \in handled

\* C8: processing a payload none of whose thread-id fields resolves emits no
\* event and leaves the registry unchanged.
C8_NoThreadDropped ==
  [][\A r \in BagToSet(reqs) :
       (/\ Processed(r)
        /\ ~Truthy(Get(r.body, "thread_id"))
        /\ ~Truthy(Get(r.body, "threadId"))
        /\ ~Truthy(Get(r.body, "conversation_id"))
        /\ ~Truthy(And(Get(r.body, "task"), Get(Get(r.body, "task"), "thread_id")))
        /\ ~Truthy(Get(r.body, "id")))
         => /\ emitted' = emitted
            /\ threadSocketsMap' = threadSocketsMap]_vars

\* a payload without a thread id was processed while a connection was live
C8_Witness ==
  /\ <<200, "no_thread">> \in handled
  /\ \E s \in DOMAIN sockets : sockets[s].connected

\* C9: processing a webhook that resolves to thread id T emits one reply,
\* with the parsed text and conversation id, to every connection registered
\* under T that is live, and nothing to any other connection.
C9_FanOut ==
  [][\A r \in BagToSet(reqs) :
       (/\ Processed(r)
        /\ Truthy(threadIdOf(r.body))
        /\ ~parseWebhookResponse(r.body).threw)
         => LET T == threadIdOf(r.body)
                parsed == parseWebhookResponse(r.body)
            IN /\ \A s \in DOMAIN sockets :
                    CountWhere(NewEvents, LAMBDA e : e.sock = s) =
                      IF s \in socketSetOf(threadSocketsMap, T) /\ sockets[s].connected
                      THEN 1 ELSE 0
               /\ \A e \in BagToSet(NewEvents) :
                    /\ e.ev = "reply"
                    /\ e.data.response = parsed.text
                    /\ e.data.conversationId = parsed.conversation_id]_vars

\* two connections under one thread id both received the reply of a webhook
C9_Witness ==
  \E e1, e2 \in BagToSet(emitted) :
    /\ e1.via = "webhook" /\ e2.via = "webhook"
    /\ e1.sock # e2.sock
    /\ e1.data = e2.data
    /\ sockets[e1.sock].threadId = sockets[e2.sock].threadId

\* C10: no terminal envelope is emitted, by the webhook path or by the
\* poller, to a connection whose liveness flag is false at that moment.
C10_NoEmitToDead ==
  [][\A e \in BagToSet(NewEvents) :
       (e.via \in {"webhook", "poll"} /\ e.ev \in {"reply", "error"})
         => sockets[e.sock].connected]_vars

\* C11: processing a webhook whose payload parses and whose thread id has no
\* entry in the registry, or an entry with an empty set, is a no-op: no event
\* is emitted, no error is raised and the registry is unchanged.
C11_UnknownThreadNoOp ==
  [][\A r \in BagToSet(reqs) :
       (/\ Processed(r)
        /\ Truthy(threadIdOf(r.body))
        /\ ~parseWebhookResponse(r.body).threw
        /\ \/ threadIdOf(r.body) \notin DOMAIN threadSocketsMap
           \/ threadSocketsMap[threadIdOf(r.body)] = {})
         => /\ emitted' = emitted
            /\ threadSocketsMap' = threadSocketsMap
            /\ handled' = handled \cup { <<r.status, "no_socket">> }]_vars

\* a payload for a thread id without connections was processed after a
\* connection had been registered and removed
C11_Witness ==
  /\ <<200, "no_socket">> \in handled
  /\ \E s \in DOMAIN sockets : ~sockets[s].connected

\* C12: the registry holds no thread id with an empty set, and no connection
\* that has disconnected.
C12_NoEmptyEntry ==
  /\ \A T \in DOMAIN threadSocketsMap : threadSocketsMap[T] # {}
  /\ \A s \in DOMAIN sockets :
       ~sockets[s].connected => \A T \in DOMAIN threadSocketsMap : s \notin threadSocketsMap[T]

\* the last connection of a thread id disconnected and the entry is gone,
\* while another thread id keeps its connection
C12_Witness ==
  /\ \E s \in DOMAIN sockets :
       /\ ~sockets[s].connected
       /\ sockets[s].threadId \notin DOMAIN threadSocketsMap
  /\ DOMAIN threadSocketsMap # {}

\* C13: a dispatch that failed (pc "failed") leaves no job behind: no timer
\* is armed and no status poll is made, then or later, and the closure's
\* events hold exactly one 'error', emitted by the message handler to the
\* requesting connection with the message id.
C13_FailedDispatch ==
  [][\A j \in 1..Len(msgs') :
       msgs'[j].pc = "failed"
         => /\ msgs'[j].starts = 0
            /\ msgs'[j].attempts = 0
            /\ msgs'[j].jobId = Undef
            /\ CountWhere(emitted', LAMBDA e : e.job = j /\ e.ev = "error") = 1
            /\ \A e \in BagToSet(emitted') :
                 e.job = j
                   => /\ e.via # "poll"
                      /\ e.ev = "error"
                           => /\ e.via = "handler"
                              /\ e.sock = msgs'[j].sock
                              /\ e.data.messageId = msgs'[j].messageId
            /\ (j <= Len(msgs) /\ msgs[j].pc = "failed") => msgs'[j] = msgs[j]]_vars

\* the trigger request failed
C13_Witness ==
  \E j \in 1..Len(msgs) :
    /\ msgs[j].pc = "failed"
    /\ \E e \in BagToSet(emitted) :
         /\ e.job = j
         /\ e.ev = "error"
         /\ e.data.message = Str("Error processing your message: request to trigger failed")

\* the fields of the six formats
ShapeFields == { "response", "results", "output", "task", "content", "data" }

\* payload p has field f and none of the other fields of the six formats
OnlyField(p, f) ==
  /\ p.t = "obj"
  /\ Get(p, f) # Undef
  /\ \A g \in ShapeFields \ {f} : Get(p, g) = Undef

\* results is a list of message objects, one of them written by the agent
HasAgentEntry(results) ==
  /\ results.t = "arr"
  /\ \A i \in 1..Len(results.v) : results.v[i].t = "obj"
  /\ \E i \in 1..Len(results.v) :
       Get(Get(results.v[i], "content"), "type") = Str("agent-message")

\* the text of the last entry of results that the agent wrote
LastAgentText(results) ==
  LET written == { i \in 1..Len(results.v) :
                     Get(Get(results.v[i], "content"), "type") = Str("agent-message") }
      last == CHOOSE i \in written : \A k \in written : k <= i
  IN Get(Get(results.v[last], "content"), "text")

NoShape(p) ==
  /\ ~Truthy(Get(p, "response"))
  /\ ~HasAgentEntry(Get(p, "results"))
  /\ ~Truthy(Get(p, "output"))
  /\ ~Truthy(Get(Get(p, "task"), "response"))
  /\ ~Truthy(Get(p, "content"))
  /\ ~Truthy(Get(Get(p, "data"), "content"))

\* C15: an object payload with none of the six formats is normalized, without
\* an exception, to an envelope with status "unparsed" that holds the raw
\* payload and a non-empty text: the message field when it is a string, the
\* fixed placeholder when the payload has no message, error or job_info field.
C15_UnparsedEnvelope ==
  (/\ call.fn = "parseWebhookResponse" /\ call.done
   /\ call.arg.t = "obj" /\ NoShape(call.arg)) =>
    LET p == call.arg
        r == call.result
    IN /\ ~r.threw
       /\ r.status = Str("unparsed")
       /\ r.raw = p
       /\ r.text.t = "str" /\ r.text.v # ""
       /\ (Get(p, "message").t = "str" /\ Truthy(Get(p, "message")))
            => r.text = Get(p, "message")
       /\ (/\ Get(p, "message") = Undef
           /\ Get(p, "error") = Undef
           /\ Get(p, "job_info") = Undef)
            => r.text = Str("No response text could be extracted from the webhook data")

\* C16: for every payload, parseWebhookResponse returns without throwing.
C16_NeverThrows ==
  (call.fn = "parseWebhookResponse" /\ call.done) => ~call.result.threw

\* C17: processing a webhook whose thread id resolves and whose payload is
\* normalized to status "unparsed" emits no event.
C17_UnparsedNotSurfaced ==
  [][\A r \in BagToSet(reqs) :
       (/\ Processed(r)
        /\ Truthy(threadIdOf(r.body))
        /\ ~parseWebhookResponse(r.body).threw
        /\ parseWebhookResponse(r.body).status = Str("unparsed"))
         => emitted' = emitted]_vars

\* C18: a reply or error of the poller is emitted once to every connection
\* that the registry holds under the closure's thread id and that is live,
\* and to no other connection.
C18_PollThroughRegistry ==
  [][\A j \in 1..Len(msgs) :
       (\E e \in BagToSet(NewEvents) :
          e.job = j /\ e.via = "poll" /\ e.ev \in {"reply", "error"})
         => \A s \in DOMAIN sockets :
              CountWhere(NewEvents,
                         LAMBDA e : /\ e.sock = s
                                    /\ e.job = j
                                    /\ e.via = "poll"
                                    /\ e.ev \in {"reply", "error"}) =
                IF /\ s \in socketSetOf(threadSocketsMap, msgs[j].threadId)
                   /\ sockets[s].connected
                THEN 1 ELSE 0]_vars

ScenarioACompleted ==
  [kind |-> "data",
   data |-> Obj(<< <<"status", Str("completed")>>, <<"response", Str("Hi there")>> >>)]

\* the second status poll of a dispatch that returned conversation id "C1" and
\* job id "J1" reported completion, and no webhook has arrived
ScenarioA(j) ==
  /\ nreq = 0
  /\ msgs[j].jobId = Str("J1")
  /\ msgs[j].conversationId = Str("C1")
  /\ msgs[j].attempts = 2
  /\ msgs[j].last = ScenarioACompleted

\* C20: in scenario A the first poll was in progress, the poller has stopped
\* after the second, and the closure's replies and errors are exactly one
\* 'reply', to the requesting connection, with response "Hi there" and
\* conversationId "C1".
C20_ScenarioA ==
  \A j \in 1..Len(msgs) :
    ScenarioA(j)
      => /\ msgs[j].pc = "done"
         /\ msgs[j].inprogress = 1
         /\ CountWhere(emitted, LAMBDA e : e.job = j /\ e.ev \in {"reply", "error"}) = 1
         /\ \A e \in BagToSet(emitted) :
              (e.job = j /\ e.ev \in {"reply", "error"})
                => /\ e.ev = "reply"
                   /\ e.sock = msgs[j].sock
                   /\ e.data.response = Str("Hi there")
                   /\ e.data.conversationId = Str("C1")

\* scenario A has run to its end on a single connection
C20_Witness ==
  /\ Cardinality(DOMAIN sockets) = 1
  /\ \E j \in 1..Len(msgs) : ScenarioA(j) /\ msgs[j].pc = "done"

\* C21: every 'reply' event, of the webhook path and of the poller, carries a
\* response, a conversationId and the messageId of the request it answers.
C21_ReplyCarriesMessageId ==
  \A e \in BagToSet(emitted) :
    e.ev = "reply"
      => /\ {"messageId", "response", "conversationId"} \subseteq DOMAIN e.data
         /\ e.job \in 1..Len(msgs) => e.data.messageId = msgs[e.job].messageId

\* C22: every envelope parseWebhookResponse returns has a status, one of
\* "ok", "error" and "unparsed".
C22_StatusField ==
  (call.fn = "parseWebhookResponse" /\ call.done /\ ~call.result.threw)
    => call.result.status \in { Str("ok"), Str("error"), Str("unparsed") }

\* C23: a connection gets its thread id, and its place in the registry under
\* that id, in the step that creates it; no later step changes the thread id
\* or holds the connection in the registry under another id.
C23_ThreadIdImmutable ==
  [][/\ \A s \in DOMAIN sockets' \ DOMAIN sockets :
          /\ Truthy(sockets'[s].threadId)
          /\ s \in socketSetOf(threadSocketsMap', sockets'[s].threadId)
     /\ \A s \in DOMAIN sockets :
          /\ s \in DOMAIN sockets'
          /\ sockets'[s].threadId = sockets[s].threadId
          /\ \A T \in DOMAIN threadSocketsMap' :
               s \in threadSocketsMap'[T] => T = sockets[s].threadId]_vars

\* a connection that sent a message and received a reply of the webhook path
\* and one of the poller is still registered under its thread id
C23_Witness ==
  \E s \in DOMAIN sockets :
    /\ s \in socketSetOf(threadSocketsMap, sockets[s].threadId)
    /\ \E j \in 1..Len(msgs) : msgs[j].sock = s /\ msgs[j].threadId = sockets[s].threadId
    /\ \E e \in BagToSet(emitted) : e.sock = s /\ e.via = "webhook"
    /\ \E e \in BagToSet(emitted) : e.sock = s /\ e.via = "poll" /\ e.ev \in {"reply", "error"}

\* C24: registering the same connection under the same thread id a second
\* time leaves the registry as the first registration left it: the thread's
\* set holds the connection, has the same size, and every entry is the same.
C24_RegisterIdempotent ==
  (call.fn = "register" /\ call.done)
    => /\ call.result[2] = call.result[1]
       /\ threadSocketsMap = call.result[1]
       /\ call.arg.T \in DOMAIN threadSocketsMap
       /\ call.arg.s \in threadSocketsMap[call.arg.T]
       /\ Cardinality(threadSocketsMap[call.arg.T]) = Cardinality(call.result[1][call.arg.T])

\* a connection was registered twice under a thread id that another
\* connection shares, next to a second thread id
C24_Witness ==
  /\ call.fn = "register" /\ call.done
  /\ Cardinality(threadSocketsMap[call.arg.T]) = 2
  /\ Cardinality(DOMAIN threadSocketsMap) = 2

\* C25: once the webhook path has delivered for a job whose poller is running
\* (a status request is in flight or the next one is scheduled), the poller
\* issues no further status request for the job and emits no event for it.
C25_WebhookCancelsPoll ==
  [][\A j \in 1..Len(msgs) :
       (WebhookReplied(j) /\ msgs[j].pc \in {"polling", "waiting"})
         => /\ msgs'[j].attempts = msgs[j].attempts
            /\ \A e \in BagToSet(NewEvents) : ~(e.job = j /\ e.via = "poll")]_vars

\* the job status has "completed" or "failed" in its state or status field
ReportsTerminal(jobData) ==
  \E f \in {"state", "status"} : Get(jobData, f) \in { Str("completed"), Str("failed") }

\* C26: one run of the poller issues at most maxAttempts status requests; it
\* schedules the next poll only after a result that is neither completed nor
\* failed, with attempts < maxAttempts, and issues a request only when that
\* timer fires; and a running poller always comes to a stop (no request in
\* flight, no poll scheduled).
C26_PollerBounded ==
  /\ [](\A j \in 1..Len(msgs) : msgs[j].attempts <= maxAttempts)
  /\ [][\A j \in 1..Len(msgs) :
          /\ (msgs[j].pc # "waiting" /\ msgs'[j].pc = "waiting")
               => /\ msgs[j].pc = "polling"
                  /\ msgs'[j].last.kind = "data"
                  /\ ~ReportsTerminal(msgs'[j].last.data)
                  /\ msgs[j].attempts < maxAttempts
          /\ msgs'[j].attempts # msgs[j].attempts
               => /\ msgs'[j].attempts = msgs[j].attempts + 1
                  /\ msgs[j].pc \in {"armed", "waiting"}
                  /\ msgs'[j].pc = "polling"]_vars
  /\ \A j \in 1..MaxMessages :
       (j \in 1..Len(msgs) /\ msgs[j].pc \in {"polling", "waiting"})
         ~> (j \in 1..Len(msgs) /\ msgs[j].pc = "done")

\* the poller stopped on the result of its last allowed status request,
\* which was not an in-progress one
C26_Witness ==
  \E j \in 1..Len(msgs) :
    /\ msgs[j].pc = "done"
    /\ msgs[j].attempts = maxAttempts
    /\ msgs[j].inprogress = maxAttempts - 1

\* the status request of closure j settles in this step
PollSettles(j) == msgs[j].pc = "polling" /\ msgs'[j].pc # "polling"

\* C27: when a status request returns a job whose state or status is
\* completed, the step emits one event, a 'reply' to the requesting
\* connection with the extracted text and the conversation id of the job
\* status or, when it has none, of the dispatch response, and the poller
\* stops; a stopped closure never polls or emits through the poller again.
C27_CompletedReplies ==
  [][\A j \in 1..Len(msgs) :
       /\ (/\ PollSettles(j)
           /\ msgs'[j].last.kind = "data"
           /\ \E f \in {"state", "status"} : Get(msgs'[j].last.data, f) = Str("completed"))
            => LET jobData == msgs'[j].last.data
               IN /\ msgs'[j].pc = "done"
                  /\ BagCardinality(NewEvents) = 1
                  /\ \A e \in BagToSet(NewEvents) :
                       /\ e.ev = "reply" /\ e.via = "poll" /\ e.job = j
                       /\ e.sock = msgs[j].sock
                       /\ e.data.response = responseTextOf(jobData)
                       /\ e.data.conversationId =
                            IF Truthy(Get(jobData, "conversation_id"))
                            THEN Get(jobData, "conversation_id")
                            ELSE msgs[j].conversationId
       /\ msgs[j].pc = "done"
            => /\ msgs'[j] = msgs[j]
               /\ \A e \in BagToSet(NewEvents) : ~(e.job = j /\ e.via = "poll")]_vars

\* a status poll reported completion with a conversation id of its own, and
\* the reply carries it, not the one of the dispatch response
C27_Witness ==
  \E j \in 1..Len(msgs) :
    /\ msgs[j].pc = "done"
    /\ msgs[j].conversationId = Str("C1")
    /\ msgs[j].last.kind = "data"
    /\ Get(msgs[j].last.data, "conversation_id") = Str("C2")
    /\ \E e \in BagToSet(emitted) :
         /\ e.job = j /\ e.via = "poll" /\ e.ev = "reply"
         /\ e.data.response = Str("Hi there")
         /\ e.data.conversationId = Str("C2")

\* C28: when a status request returns a job whose state or status is failed
\* (and not completed), the step emits one event, an 'error' to the requesting
\* connection whose message is "Error: " and the reported error ("Job failed"
\* when none is reported), and the poller stops; the poller emits no 'reply'
\* for the job, then or later.
C28_FailedErrors ==
  [][\A j \in 1..Len(msgs) :
       /\ (/\ PollSettles(j)
           /\ msgs'[j].last.kind = "data"
           /\ \E f \in {"state", "status"} : Get(msgs'[j].last.data, f) = Str("failed")
           /\ \A f \in {"state", "status"} : Get(msgs'[j].last.data, f) # Str("completed"))
            => LET reported == Get(msgs'[j].last.data, "error")
               IN /\ msgs'[j].pc = "done"
                  /\ BagCardinality(NewEvents) = 1
                  /\ \A e \in BagToSet(NewEvents) :
                       /\ e.ev = "error" /\ e.via = "poll" /\ e.job = j
                       /\ e.sock = msgs[j].sock
                       /\ e.data.message =
                            Str("Error: " \o (IF Truthy(reported) THEN ToStr(reported)
                                              ELSE "Job failed"))
       /\ (/\ j \in 1..Len(msgs')
           /\ msgs'[j].last.kind = "data"
           /\ Get(msgs'[j].last.data, "state") = Str("failed"))
            => \A e \in BagToSet(emitted') :
                 ~(e.job = j /\ e.via = "poll" /\ e.ev = "reply")]_vars

\* a status poll reported the failure "boom" and the poller stopped with the
\* error event
C28_Witness ==
  \E j \in 1..Len(msgs) :
    /\ msgs[j].pc = "done"
    /\ msgs[j].last.kind = "data"
    /\ Get(msgs[j].last.data, "state") = Str("failed")
    /\ \E e \in BagToSet(emitted) :
         /\ e.job = j /\ e.via = "poll" /\ e.ev = "error"
         /\ e.data.message = Str("Error: boom")

\* the values of the five thread fields of body b, in the order thread_id,
\* threadId, conversation_id, task.thread_id, id
ThreadFields(b) ==
  << Get(b, "thread_id"), Get(b, "threadId"), Get(b, "conversation_id"),
     IF Get(b, "task").t = "obj" THEN Get(Get(b, "task"), "thread_id") ELSE Undef,
     Get(b, "id") >>

\* the positions of ThreadFields(b) that hold a truthy value
PresentFields(b) == { i \in 1..5 : Truthy(ThreadFields(b)[i]) }

\* the first truthy value of ThreadFields(b)
FirstPresent(b) ==
  ThreadFields(b)[CHOOSE i \in PresentFields(b) : \A k \in PresentFields(b) : i <= k]

\* C29: the thread id resolved for a webhook is the first truthy value among
\* thread_id, threadId, conversation_id, task.thread_id, id (none: no thread
\* id), and the reply of the webhook goes to the connections registered under
\* that value and to no other connection.
C29_ThreadIdOrder ==
  call.fn = "threadIdOf"
    => /\ call.done
         => IF PresentFields(call.arg) = {} THEN ~Truthy(call.result)
            ELSE call.result = FirstPresent(call.arg)
       /\ handled # {}
         => { e.sock : e \in BagToSet(emitted) } =
              IF PresentFields(call.arg) = {} THEN {}
              ELSE { s \in DOMAIN sockets : sockets[s].threadId = FirstPresent(call.arg) }

\* a body whose thread_id and threadId are empty and whose conversation_id,
\* task.thread_id and id name three threads was delivered to the connection
\* of the thread that conversation_id names
C29_Witness ==
  /\ call.fn = "threadIdOf" /\ call.done
  /\ handled # {}
  /\ PresentFields(call.arg) = {3, 4, 5}
  /\ call.result = ThreadOf("3")
  /\ { e.sock : e \in BagToSet(emitted) } = { <<"s", "3">> }

\* payload p has format k of the six, in the order of their priority
Matches(p, k) ==
  CASE k = 1 -> Truthy(Get(p, "response"))
    [] k = 2 -> HasAgentEntry(Get(p, "results"))
    [] k = 3 -> Truthy(Get(p, "output"))
    [] k = 4 -> Truthy(Get(Get(p, "task"), "response"))
    [] k = 5 -> Truthy(Get(p, "content"))
    [] k = 6 -> Truthy(Get(Get(p, "data"), "content"))

\* the text that format k designates in payload p
ShapeText(p, k) ==
  CASE k = 1 -> Get(p, "response")
    [] k = 2 -> LastAgentText(Get(p, "results"))
    [] k = 3 -> IF Truthy(Get(Get(p, "output"), "text"))
                THEN Get(Get(p, "output"), "text") ELSE Get(p, "output")
    [] k = 4 -> Get(Get(p, "task"), "response")
    [] k = 5 -> IF Get(p, "content").t = "str" THEN Get(p, "content")
                ELSE Str(JSONstringify(Get(p, "content")))
    [] k = 6 -> IF Get(Get(p, "data"), "content").t = "str"
                THEN Get(Get(p, "data"), "content")
                ELSE Str(JSONstringify(Get(Get(p, "data"), "content")))

\* C30: for a payload that has several of the six formats, the envelope text
\* is the text of the first format it has in the order response, results
\* (last agent message), output, task.response, content, data.content.
C30_PriorityOrder ==
  (/\ call.fn = "parseWebhookResponse" /\ call.done
   /\ Cardinality({ k \in 1..6 : Matches(call.arg, k) }) >= 2)
    => LET has == { k \in 1..6 : Matches(call.arg, k) }
           first == CHOOSE k \in has : \A i \in has : k <= i
       IN /\ ~call.result.threw
          /\ call.result.text = ShapeText(call.arg, first)

\* connection s disconnects in this step
Disconnects(s) ==
  /\ s \in DOMAIN sockets
  /\ sockets[s].connected
  /\ ~sockets'[s].connected

\* C31: a disconnect changes the registry only (the connection leaves its
\* set, an emptied entry leaves the map): the closures with their timers,
\* pollers and attempt counters, the pending webhooks and the emitted events
\* stay as they are; and a timer or poller of a disconnected connection still
\* runs until the poller has reported its one result.
C31_DisconnectKeepsJob ==
  /\ [][\A s \in DOMAIN sockets :
          Disconnects(s)
            => /\ msgs' = msgs
               /\ emitted' = emitted
               /\ reqs' = reqs
               /\ DOMAIN threadSocketsMap' \subseteq DOMAIN threadSocketsMap
               /\ \A T \in DOMAIN threadSocketsMap :
                    socketSetOf(threadSocketsMap', T) = threadSocketsMap[T] \ {s}]_vars
  /\ \A j \in 1..MaxMessages :
       (Gone(j) /\ msgs[j].pc \in {"armed", "polling", "waiting"})
         ~> (j \in 1..Len(msgs) /\ msgs[j].pc = "done" /\ PollTerminalCount(j) = 1)

\* a connection has disconnected while the arm timer of its message is pending
C31_Witness ==
  \E j \in 1..Len(msgs) : Gone(j) /\ msgs[j].pc = "armed"

C33_OnCompleteOnce ==
  /\ [](\A j \in 1..Len(msgs) :
          PollTerminalCount(j) =
            IF msgs[j].pc = "done" /\ msgs[j].starts >= 1 THEN 1 ELSE 0)
  /\ [][\A j \in 1..Len(msgs) :
          msgs'[j].attempts # msgs[j].attempts => PollTerminalCount(j) = 0]_vars
  /\ \A j \in 1..MaxMessages :
       (j \in 1..Len(msgs) /\ msgs[j].pc \in {"polling", "waiting"})
         ~> (j \in 1..Len(msgs) /\ PollTerminalCount(j) = 1)

\* a poller stopped on a transport error at its third status request, after
\* two in-progress results, and has called onComplete once
C33_Witness ==
  \E j \in 1..Len(msgs) :
    /\ msgs[j].pc = "done"
    /\ msgs[j].attempts = 3
    /\ msgs[j].inprogress = 2
    /\ msgs[j].last.kind = "throw"
    /\ PollTerminalCount(j) = 1

\* C34: when a status request throws (network error or HTTP status that is
\* not ok), the step emits one event, an 'error' to the requesting connection
\* whose message is "Polling error: " and the text of the exception, and the
\* poller stops there, whatever the number of attempts made.
C34_TransportErrorTerminal ==
  [][\A j \in 1..Len(msgs) :
       (PollSettles(j) /\ msgs'[j].last.kind = "throw")
         => /\ msgs'[j].pc = "done"
            /\ msgs'[j].attempts = msgs[j].attempts
            /\ BagCardinality(NewEvents) = 1
            /\ \A e \in BagToSet(NewEvents) :
                 /\ e.ev = "error" /\ e.via = "poll" /\ e.job = j
                 /\ e.sock = msgs[j].sock
                 /\ e.data.message = Str("Polling error: " \o msgs'[j].last.text)]_vars

\* the first status request of a poller threw and the poller has stopped
C34_Witness ==
  \E j \in 1..Len(msgs) :
    /\ msgs[j].pc = "done"
    /\ msgs[j].attempts = 1
    /\ msgs[j].last.kind = "throw"
    /\ \E e \in BagToSet(emitted) :
         /\ e.job = j /\ e.via = "poll" /\ e.ev = "error"
         /\ e.data.message =
              Str("Polling error: Failed to get job status: 500 Internal Server Error")

\* the message handler has emitted an 'error' for the message of closure j
HandlerFailed(j) ==
  \E e \in BagToSet(emitted) : e.job = j /\ e.ev = "error" /\ e.via = "handler"

\* C35: once the message handler has emitted an 'error' for a message, no arm
\* timer or poll timer is pending for it, no status request is in flight or
\* issued, and no further event carrying its message id is emitted.
C35_FailedIsFinal ==
  [][\A j \in 1..Len(msgs) :
       HandlerFailed(j)
         => /\ msgs[j].pc \notin {"armed", "polling", "waiting"}
            /\ msgs'[j].attempts = msgs[j].attempts
            /\ \A e \in BagToSet(NewEvents) :
                 ~(e.job = j /\ e.via \in {"handler", "poll"})]_vars

\* C36: the fallback is armed exactly when the dispatch succeeded with a job
\* id. The step that ends a dispatch leaves the closure armed iff it recorded
\* a job id; a closure without a job id is never armed, polling or waiting,
\* never issues a status request and has no event of the polling path, so
\* every answer for it comes from a webhook.
C36_ArmedIffJobId ==
  /\ [][\A j \in 1..Len(msgs) :
          (msgs[j].pc = "dispatch" /\ msgs'[j].pc # "dispatch")
            => /\ (msgs'[j].pc = "armed") <=> Truthy(msgs'[j].jobId)
               /\ msgs'[j].pc = "failed" => msgs'[j].jobId = Undef]_vars
  /\ [](\A j \in 1..Len(msgs) :
          ~Truthy(msgs[j].jobId)
            => /\ msgs[j].pc \notin {"armed", "polling", "waiting"}
               /\ msgs[j].starts = 0
               /\ msgs[j].attempts = 0
               /\ msgs[j].inprogress = 0
               /\ \A e \in BagToSet(emitted) :
                    e.job = j => /\ e.via # "poll"
                                 /\ Answers(e, j) => e.via = "webhook")

C36_Witness ==
  \E j \in 1..Len(msgs) :
    /\ msgs[j].pc = "done"
    /\ msgs[j].jobId = Undef
    /\ msgs[j].conversationId = Str("C1")
    /\ msgs[j].starts = 0
    /\ WebhookReplied(j)

IsAgentEntry(x) ==
  /\ x.t = "obj"
  /\ Get(Get(x, "content"), "type") = Str("agent-message")

\* results is a non-empty list none of whose entries the agent wrote
NoAgentEntry(results) ==
  /\ results.t = "arr"
  /\ Len(results.v) >= 1
  /\ \A i \in 1..Len(results.v) : ~IsAgentEntry(results.v[i])

\* C39: a payload without a response whose results list is non-empty and has
\* no agent-message entry is normalized, without an exception, by the first of
\* the later formats it has (output, task.response, content, data.content),
\* and to an unparsed envelope when it has none of them.
C39_ResultsFallThrough ==
  (/\ call.fn = "parseWebhookResponse" /\ call.done
   /\ call.arg.t = "obj"
   /\ ~Truthy(Get(call.arg, "response"))
   /\ NoAgentEntry(Get(call.arg, "results")))
    => LET later == { k \in 3..6 : Matches(call.arg, k) }
       IN /\ ~call.result.threw
          /\ IF later = {} THEN call.result.status = Str("unparsed")
             ELSE call.result.text =
                    ShapeText(call.arg, CHOOSE k \in later : \A i \in later : k <= i)

====
